---------------------------- MODULE Spec2Model ----------------------------
(***************************************************************************)
(* Alt-Manager: a browser extension that stores named credentials          *)
(* ("accounts") and switches the active page's session by writing          *)
(* localStorage.session_v1 from a content script.                          *)
(*                                                                         *)
(* Controller = popup.js (the popup window), Executor = the content script *)
(* (src/unnamed/part_000) running in a page.                               *)
(*                                                                         *)
(* Text is modelled as a sequence of pieces: a piece is one character of   *)
(* user input (" ", "a", "b", a digit) or one literal of the source; a     *)
(* template literal is the concatenation (\o) of its pieces.               *)
(*                                                                         *)
(* Every async handler is a task: it runs from one await to the next as    *)
(* one atomic step (JavaScript's run-to-completion), and other handlers    *)
(* may run between its steps.                                              *)
(***************************************************************************)
EXTENDS Integers, Sequences, FiniteSets

VARIABLES
    store,          \* chrome.storage.local: the set of its <<key, value>> entries
    rendered,       \* the sequence last passed to renderAccounts (the list items and their closures)
    messageBox,     \* #message-box: [text, display], the text as far as it is displayed
    editModal,      \* #edit-modal style.display
    editAccountId,  \* #edit-account-id value
    closed,         \* window.close() was called: the popup is gone
    tasks,          \* handler invocations in flight, by slot
    session,        \* per page: window.localStorage, the set of its <<key, value>> entries
    boxes,          \* per page: the reload prompts created, oldest first
    clicks          \* clicks made in the popup, where the specification counts them

vars == <<store, rendered, messageBox, editModal, editAccountId, closed,
          tasks, session, boxes, clicks>>

---------------------------------------------------------------------------
(* Bounds of the model *)

\* longest persisted sequence the user builds
MaxAccounts == 3
\* largest clock value Date.now() returns
MaxClock == 2
\* clicks in the popup of a user who does not wait for handlers to complete
MaxClicks == 4
\* handler invocations in flight at once
MaxTasks == 2
\* timeouts of one prompt's dismiss button pending at once
MaxTimers == 2

---------------------------------------------------------------------------
(* Source constants *)

ACCOUNT_STORAGE_KEY == "authAccounts"
MESSAGE_BOX_ID == "extension-reload-prompt"
LOCAL_STORAGE_KEY == "session_v1"
SET_LOCAL_STORAGE_AUTH == "SET_LOCAL_STORAGE_AUTH"

\* a tab id that is absent or 0: !tab.id holds
NoId == 0

---------------------------------------------------------------------------
(* Input domains *)

\* what the user may have typed in the name input and the Auth ID input
\* when a save button is clicked
Forms == { [name |-> <<" ", "a", " ">>, authId |-> <<"x">>],
           [name |-> <<"b">>,           authId |-> <<"y", " ">>],
           [name |-> <<>>,              authId |-> <<"x">>],
           [name |-> <<"b">>,           authId |-> <<" ">>],
           [name |-> <<" ">>,           authId |-> <<>>] }

\* tabs with a content script (pages), and one tab without
Pages == {1}
NoScriptTab == 2
TabIds == Pages \cup {NoScriptTab}

\* what chrome.tabs.query may resolve to: no tab, a tab without id, a tab with id
QueryResults == { <<>> } \cup { <<[id |-> i]>> : i \in TabIds \cup {NoId} }

\* error messages the storage write may throw with
WriteErrors == { <<"Access denied">>, <<"QuotaExceededError">> }

\* the TypeError of document.body.appendChild in a document without body
NoBodyError == <<"Cannot read properties of null (reading 'appendChild')">>

\* the values Date.now() returns (wall-clock time: two calls may return the
\* same value, and a later call a smaller one)
StartClock == 1
Clock == StartClock..MaxClock

---------------------------------------------------------------------------
(* Pure helpers *)

Min(a, b) == IF a <= b THEN a ELSE b
Max(a, b) == IF a >= b THEN a ELSE b

IsSpace(c) == c = " "

RECURSIVE TrimStart(_)
TrimStart(s) ==
    IF s # <<>> /\ IsSpace(Head(s)) THEN TrimStart(Tail(s)) ELSE s

RECURSIVE TrimEnd(_)
TrimEnd(s) ==
    IF s # <<>> /\ IsSpace(s[Len(s)]) THEN TrimEnd(SubSeq(s, 1, Len(s) - 1)) ELSE s

\* a bug to tell from Trim: the input is taken as typed
NoTrim(s) == s

\* String.prototype.trim
Trim(s) == TrimEnd(TrimStart(s))

Digit(d) == <<"0", "1", "2", "3", "4", "5", "6", "7", "8", "9">>[d + 1]

\* Number.prototype.toString of a non-negative integer
RECURSIVE ToString(_)
ToString(n) ==
    IF n < 10 THEN <<Digit(n)>> ELSE ToString(n \div 10) \o <<Digit(n % 10)>>

\* a storage area has an entry for key
Has(area, key) == \E e \in area : e[1] = key

\* the value a storage area holds for key
Get(area, key) == (CHOOSE e \in area : e[1] = key)[2]

\* a storage area with key set to value
Set(area, key, value) == { e \in area : e[1] # key } \cup { <<key, value>> }

\* loadAccounts: result[ACCOUNT_STORAGE_KEY] || []
LoadAccounts(area) ==
    IF Has(area, ACCOUNT_STORAGE_KEY) THEN Get(area, ACCOUNT_STORAGE_KEY) ELSE <<>>

\* accounts[index] is not undefined, for a 0-based index
Defined(accounts, index) == index >= 0 /\ index < Len(accounts)

\* accounts[index] for a 0-based index inside the array
At(accounts, index) == accounts[index + 1]

\* Array.prototype.push(account)
Push(accounts, account) == Append(accounts, account)

\* a bug to tell from Splice: the last record is moved into the place of the
\* removed one (swap with the last, then pop), which loses the order
SpliceSwapLast(accounts, start, deleteCount) ==
    LET len == Len(accounts)
    IN  IF start < 0 \/ start >= len \/ deleteCount <= 0
        THEN accounts
        ELSE [k \in 1..(len - 1) |->
                 IF k = start + 1 THEN accounts[len] ELSE accounts[k]]

\* a bug to tell from Splice: splice(start), which removes all from start on
SpliceToEnd(accounts, start, deleteCount) ==
    SubSeq(accounts, 1, IF start < Len(accounts) THEN start ELSE Len(accounts))

\* Array.prototype.splice(start, deleteCount): the array that is left
Splice(accounts, start, deleteCount) ==
    LET len == Len(accounts)
        actualStart == IF start < 0 THEN Max(len + start, 0) ELSE Min(start, len)
        actualDelete == Min(Max(deleteCount, 0), len - actualStart)
    IN  SubSeq(accounts, 1, actualStart)
            \o SubSeq(accounts, actualStart + actualDelete + 1, len)

\* a bug to tell from FindIndex: a predicate that holds of every record
\* (acc.id = id), so that the first record is found
FindIndexOfFirst(accounts, id) == IF accounts # <<>> THEN 0 ELSE -1

\* Array.prototype.findIndex(acc => acc.id === id): 0-based, -1 when absent
FindIndex(accounts, id) ==
    IF \E k \in 1..Len(accounts) : accounts[k].id = id
    THEN (CHOOSE k \in 1..Len(accounts) :
            /\ accounts[k].id = id
            /\ \A j \in 1..(k - 1) : accounts[j].id # id) - 1
    ELSE -1

\* a bug to tell from SetNameAndAuthId: every record is given the new values
SetNameAndAuthIdOfAll(accounts, index, newName, newAuthId) ==
    [k \in 1..Len(accounts) |->
        [accounts[k] EXCEPT !.name = newName, !.authId = newAuthId]]

\* accounts[index].name = newName; accounts[index].authId = newAuthId
SetNameAndAuthId(accounts, index, newName, newAuthId) ==
    [accounts EXCEPT ![index + 1].name = newName, ![index + 1].authId = newAuthId]

---------------------------------------------------------------------------
(* Message texts *)

MsgProvideBoth == <<"Please provide both an Account Name and the Auth ID.">>
MsgSaved(name) == <<"Account \"">> \o name \o <<"\" saved!">>
MsgDeleted(name) == <<"Account \"">> \o name \o <<"\" deleted.">>
MsgNoActiveTab == <<"Error: No active tab found.">>
MsgNoCommunication ==
    <<"Error: Could not communicate with page script. Try reloading the page first.">>
MsgScriptFailed == <<"Script execution failed.">>
MsgSwitchFailed(message) == <<"Switch failed: ">> \o message
MsgCannotBeEmpty == <<"Name and Auth ID cannot be empty.">>
MsgUpdated(oldName, newName) ==
    <<"Account \"">> \o oldName \o <<"\" updated to \"">> \o newName \o <<"\"!">>
MsgNotFound == <<"Error: Could not find account to update.">>
MsgStorageSet == <<"Local storage set.">>
\* a bug to tell from MsgWriteFailed: the reason leaves the error out
MsgWriteFailedGeneric(message) ==
    <<"Failed to set localStorage. The site might restrict script access.">>

MsgWriteFailed(message) ==
    <<"Failed to set localStorage: ">> \o message
        \o <<". The site might restrict script access.">>

\* what the content script writes to the page's console: console.log after
\* the write of session_v1, console.error with the error caught
LogSuccess == [level |-> "log", message |-> <<"[Account Switcher] SUCCESS">>]
LogError(e) == [level |-> "error", message |-> e]

---------------------------------------------------------------------------
(* Tasks *)

Slots == 1..MaxTasks
Idle == [kind |-> "idle", pc |-> "idle"]

FreeSlots == { s \in Slots : tasks[s].kind = "idle" }
HasFreeSlot == FreeSlots # {}
FreeSlot == CHOOSE s \in FreeSlots : \A r \in FreeSlots : s <= r

\* tasks with the handler invocation t started
Started(t) == [tasks EXCEPT ![FreeSlot] = t]
\* tasks with the invocation in slot s at its next await
Moved(s, t) == [tasks EXCEPT ![s] = t]
\* tasks with the invocation in slot s finished
Finished(s) == [tasks EXCEPT ![s] = Idle]

\* no handler invocation is in flight
Quiescent == \A s \in Slots : tasks[s].kind = "idle"

\* the popup is open: the user can click in it
UserCanAct == ~closed

---------------------------------------------------------------------------
(* Initial state: popup.js has run top to bottom on an empty store, and the *)
(* DOMContentLoaded handler has issued its loadAccounts.                    *)

Init ==
    /\ store = {}
    /\ rendered = <<>>
    /\ messageBox = [text |-> <<>>, display |-> "none"]
    /\ editModal = "none"
    /\ editAccountId = <<>>
    /\ closed = FALSE
    /\ tasks = [s \in Slots |->
                  IF s = 1 THEN [kind |-> "init", pc |-> "load",
                                 loaded |-> LoadAccounts({})]
                           ELSE Idle]
    /\ session = [p \in Pages |-> {}]
    /\ boxes = [p \in Pages |-> <<>>]
    /\ clicks = 0

---------------------------------------------------------------------------
(* Controller: utilities *)

\* showMessage(text): the text is shown and a timeout to hide it is set
ShowMessage(text) == messageBox' = [text |-> text, display |-> "block"]

\* a timeout of showMessage fires. Every timeout only hides the box, and
\* while the box is shown the timeout of the last showMessage is pending:
\* a timeout that fires on a hidden box changes nothing. The text of a
\* hidden box is read by nothing and replaced by the next showMessage.
MessageTimeout ==
    /\ ~closed
    /\ messageBox.display = "block"
    /\ messageBox' = [text |-> <<>>, display |-> "none"]
    /\ UNCHANGED <<store, rendered, editModal, editAccountId, closed,
                   tasks, session, boxes>>
    /\ UNCHANGED clicks

\* a bug to tell from RenderAccounts: the list is left as it was
RenderNothing(accounts) == rendered' = rendered

\* renderAccounts(accounts)
RenderAccounts(accounts) == rendered' = accounts

\* saveAccounts(accounts): chrome.storage.local.set
SaveAccounts(accounts) == store' = Set(store, ACCOUNT_STORAGE_KEY, accounts)

\* DOMContentLoaded: loadAccounts has resolved
InitLoaded(s) ==
    /\ ~closed
    /\ tasks[s].kind = "init"
    /\ RenderAccounts(tasks[s].loaded)
    /\ tasks' = Finished(s)
    /\ UNCHANGED <<store, messageBox, editModal, editAccountId,
                   closed, session, boxes>>
    /\ UNCHANGED clicks

---------------------------------------------------------------------------
(* Controller: add *)

\* a bug to tell from Invalid: only the name is tested
InvalidName(name, authId) == name = <<>>

\* what the validation of both handlers rejects: !name || !authId
Invalid(name, authId) == name = <<>> \/ authId = <<>>

\* click on #save-account with the inputs holding rawName and rawAuthId,
\* Date.now() returning t
AddClick(rawName, rawAuthId, t) ==
    LET name == Trim(rawName)
        authId == Trim(rawAuthId)
        newAccount == [id |-> ToString(t), name |-> name, authId |-> authId]
    IN  /\ UserCanAct
        /\ IF Invalid(name, authId)
           THEN /\ ShowMessage(MsgProvideBoth)
                /\ UNCHANGED tasks
           ELSE /\ HasFreeSlot
                /\ Len(LoadAccounts(store)) < MaxAccounts
                /\ tasks' = Started([kind |-> "add", pc |-> "load",
                                     newAccount |-> newAccount,
                                     loaded |-> LoadAccounts(store)])
                /\ UNCHANGED messageBox
        /\ UNCHANGED <<store, rendered, editModal, editAccountId, closed,
                       session, boxes>>

\* loadAccounts has resolved: push, then saveAccounts is issued
AddLoaded(s) ==
    /\ ~closed
    /\ tasks[s].kind = "add" /\ tasks[s].pc = "load"
    /\ LET accounts == Push(tasks[s].loaded, tasks[s].newAccount)
       IN  /\ SaveAccounts(accounts)
           /\ tasks' = Moved(s, [kind |-> "add", pc |-> "save",
                                 newAccount |-> tasks[s].newAccount,
                                 accounts |-> accounts])
    /\ UNCHANGED <<rendered, messageBox, editModal, editAccountId,
                   closed, session, boxes>>
    /\ UNCHANGED clicks

\* saveAccounts has resolved: render, clear the form, report
AddSaved(s) ==
    /\ ~closed
    /\ tasks[s].kind = "add" /\ tasks[s].pc = "save"
    /\ RenderAccounts(tasks[s].accounts)
    /\ ShowMessage(MsgSaved(tasks[s].newAccount.name))
    /\ tasks' = Finished(s)
    /\ UNCHANGED <<store, editModal, editAccountId, closed, session, boxes>>
    /\ UNCHANGED clicks

---------------------------------------------------------------------------
(* Controller: delete *)

\* click on the delete button renderAccounts made for position index
DeleteClick(index) ==
    /\ UserCanAct
    /\ HasFreeSlot
    /\ index \in 0..(Len(rendered) - 1)
    /\ tasks' = Started([kind |-> "delete", pc |-> "load", index |-> index,
                         loaded |-> LoadAccounts(store)])
    /\ UNCHANGED <<store, rendered, messageBox, editModal,
                   editAccountId, closed, session, boxes>>

\* loadAccounts has resolved: accounts[index].name, splice, saveAccounts is
\* issued; accounts[index] undefined throws and the invocation ends
DeleteLoaded(s) ==
    /\ ~closed
    /\ tasks[s].kind = "delete" /\ tasks[s].pc = "load"
    /\ LET index == tasks[s].index
           loaded == tasks[s].loaded
           accounts == Splice(loaded, index, 1)
       IN  IF ~Defined(loaded, index)
           THEN /\ tasks' = Finished(s)
                /\ UNCHANGED store
           ELSE /\ SaveAccounts(accounts)
                /\ tasks' = Moved(s, [kind |-> "delete", pc |-> "save",
                                      index |-> index,
                                      accountName |-> At(loaded, index).name,
                                      accounts |-> accounts])
    /\ UNCHANGED <<rendered, messageBox, editModal, editAccountId,
                   closed, session, boxes>>
    /\ UNCHANGED clicks

\* saveAccounts has resolved: render, report
DeleteSaved(s) ==
    /\ ~closed
    /\ tasks[s].kind = "delete" /\ tasks[s].pc = "save"
    /\ RenderAccounts(tasks[s].accounts)
    /\ ShowMessage(MsgDeleted(tasks[s].accountName))
    /\ tasks' = Finished(s)
    /\ UNCHANGED <<store, editModal, editAccountId, closed, session, boxes>>
    /\ UNCHANGED clicks

---------------------------------------------------------------------------
(* Controller: edit *)

\* click on the edit button renderAccounts made for position index:
\* openEditModal(account)
OpenEditModal(index) ==
    /\ UserCanAct
    /\ index \in 0..(Len(rendered) - 1)
    /\ editAccountId' = At(rendered, index).id
    /\ editModal' = "flex"
    /\ UNCHANGED <<store, rendered, messageBox, closed,
                   tasks, session, boxes>>

\* click on #close-modal-btn
CloseEditModal ==
    /\ UserCanAct
    /\ editModal = "flex"
    /\ editModal' = "none"
    /\ UNCHANGED <<store, rendered, messageBox, editAccountId,
                   closed, tasks, session, boxes>>

\* click on #save-edit-btn with the modal's inputs holding rawName and rawAuthId
SaveEditClick(rawName, rawAuthId) ==
    LET id == editAccountId
        newName == Trim(rawName)
        newAuthId == Trim(rawAuthId)
    IN  /\ UserCanAct
        /\ editModal = "flex"
        /\ IF Invalid(newName, newAuthId)
           THEN /\ ShowMessage(MsgCannotBeEmpty)
                /\ UNCHANGED tasks
           ELSE /\ HasFreeSlot
                /\ tasks' = Started([kind |-> "edit", pc |-> "load", id |-> id,
                                     newName |-> newName, newAuthId |-> newAuthId,
                                     loaded |-> LoadAccounts(store)])
                /\ UNCHANGED messageBox
        /\ UNCHANGED <<store, rendered, editModal, editAccountId, closed,
                       session, boxes>>

\* loadAccounts has resolved: findIndex; found: update in place and
\* saveAccounts is issued; not found: report and close the modal
EditLoaded(s) ==
    /\ ~closed
    /\ tasks[s].kind = "edit" /\ tasks[s].pc = "load"
    /\ LET loaded == tasks[s].loaded
           accountIndex == FindIndex(loaded, tasks[s].id)
           accounts == SetNameAndAuthId(loaded, accountIndex,
                                        tasks[s].newName, tasks[s].newAuthId)
       IN  IF accountIndex # -1
           THEN /\ SaveAccounts(accounts)
                /\ tasks' = Moved(s, [kind |-> "edit", pc |-> "save",
                                      id |-> tasks[s].id,
                                      oldName |-> At(loaded, accountIndex).name,
                                      newName |-> tasks[s].newName,
                                      accounts |-> accounts])
                /\ UNCHANGED <<messageBox, editModal>>
           ELSE /\ ShowMessage(MsgNotFound)
                /\ editModal' = "none"
                /\ tasks' = Finished(s)
                /\ UNCHANGED store
    /\ UNCHANGED <<rendered, editAccountId, closed, session, boxes>>
    /\ UNCHANGED clicks

\* saveAccounts has resolved: render, close the modal, report
EditSaved(s) ==
    /\ ~closed
    /\ tasks[s].kind = "edit" /\ tasks[s].pc = "save"
    /\ RenderAccounts(tasks[s].accounts)
    /\ editModal' = "none"
    /\ ShowMessage(MsgUpdated(tasks[s].oldName, tasks[s].newName))
    /\ tasks' = Finished(s)
    /\ UNCHANGED <<store, editAccountId, closed, session, boxes>>
    /\ UNCHANGED clicks

---------------------------------------------------------------------------
(* Controller: switch *)

\* click on the switch button renderAccounts made for position index:
\* switchAccount(account) runs up to its await of chrome.tabs.query
SwitchClick(index) ==
    /\ UserCanAct
    /\ HasFreeSlot
    /\ index \in 0..(Len(rendered) - 1)
    /\ tasks' = Started([kind |-> "switch", pc |-> "query",
                         authId |-> At(rendered, index).authId,
                         name |-> At(rendered, index).name])
    /\ UNCHANGED <<store, rendered, messageBox, editModal,
                   editAccountId, closed, session, boxes>>

\* a bug to tell from NoActiveTab: only !tab is tested
NoActiveTabOnlyMissing(result) == result = <<>>

\* !tab || !tab.id, for [tab] = result
NoActiveTab(result) == result = <<>> \/ Head(result).id = NoId

\* the message chrome.tabs.sendMessage sends
Request(authId, name) ==
    [action |-> SET_LOCAL_STORAGE_AUTH, payload |-> [authId |-> authId, name |-> name]]

\* chrome.tabs.query has resolved to result: no tab is reported, or the
\* request is sent to the tab
SwitchQueried(s, result) ==
    /\ ~closed
    /\ tasks[s].kind = "switch" /\ tasks[s].pc = "query"
    /\ IF NoActiveTab(result)
       THEN /\ ShowMessage(MsgNoActiveTab)
            /\ tasks' = Finished(s)
       ELSE /\ tasks' = Moved(s, [kind |-> "switch", pc |-> "sent",
                                  tab |-> Head(result).id,
                                  request |-> Request(tasks[s].authId, tasks[s].name),
                                  sent |-> 1,
                                  responses |-> <<>>,
                                  console |-> <<>>])
            /\ UNCHANGED messageBox
    /\ UNCHANGED <<store, rendered, editModal, editAccountId, closed,
                   session, boxes>>
    /\ UNCHANGED clicks

\* a bug to tell from AfterLastError: the request is sent again
RetryAfterLastError(s) == Moved(s, [tasks[s] EXCEPT !.sent = @ + 1])

\* the switch action of slot s after its callback has run with lastError
\* set: the message is shown and nothing else is done
AfterLastError(s) == Finished(s)

\* the callback of sendMessage runs: with chrome.runtime.lastError set when
\* no content script received the request, else with the response
SwitchCallback(s, lastError) ==
    /\ ~closed
    /\ tasks[s].kind = "switch"
    /\ IF lastError
       THEN tasks[s].pc = "sent"
       ELSE tasks[s].pc = "handled" /\ tasks[s].responses # <<>>
    /\ LET response == Head(tasks[s].responses)
       IN  IF lastError
           THEN /\ ShowMessage(MsgNoCommunication)
                /\ UNCHANGED closed
           ELSE IF response.success
           THEN /\ closed' = TRUE
                /\ UNCHANGED messageBox
           ELSE /\ ShowMessage(MsgSwitchFailed(
                        IF response.message # <<>> THEN response.message
                                                   ELSE MsgScriptFailed))
                /\ UNCHANGED closed
    /\ tasks' = IF lastError THEN AfterLastError(s) ELSE Finished(s)
    /\ UNCHANGED <<store, rendered, editModal, editAccountId, session, boxes>>
    /\ UNCHANGED clicks

---------------------------------------------------------------------------
(* Executor: the content script of a page *)

\* a reload prompt: its account name, whether it is in the document, and
\* how many timeouts of its dismiss button are pending (one per click)
NewBox(accountName) ==
    [id |-> MESSAGE_BOX_ID, name |-> accountName, attached |-> TRUE, timers |-> 0]

\* boxes that are in the document or that a pending timeout still refers to
Live(bs) == SelectSeq(bs, LAMBDA b : b.attached \/ b.timers > 0)

\* document.getElementById(MESSAGE_BOX_ID): position of the first box in the
\* document, 0 when there is none
ElementById(bs) ==
    LET found(k) == bs[k].attached /\ bs[k].id = MESSAGE_BOX_ID
    IN  IF \E k \in 1..Len(bs) : found(k)
        THEN CHOOSE k \in 1..Len(bs) : found(k) /\ \A j \in 1..(k - 1) : ~found(j)
        ELSE 0

\* a bug to tell from RemoveBox: the timeout of the box at position k
\* removes the element that has the prompt's id at that time
RemoveBoxById(bs, k) ==
    Live([j \in 1..Len(bs) |->
            LET fired == IF j = k THEN [bs[j] EXCEPT !.timers = @ - 1] ELSE bs[j]
            IN  IF j = ElementById(bs) THEN [fired EXCEPT !.attached = FALSE]
                                       ELSE fired])

\* one pending timeout of the box at position k runs: box.remove(); the
\* other timeouts of the box stay pending
RemoveBox(bs, k) ==
    Live([j \in 1..Len(bs) |->
            IF j = k THEN [bs[j] EXCEPT !.attached = FALSE, !.timers = @ - 1] ELSE bs[j]])

\* box.remove() of an existing prompt found by id
RemoveExisting(bs) ==
    IF ElementById(bs) # 0
    THEN Live([j \in 1..Len(bs) |->
                 IF j = ElementById(bs) THEN [bs[j] EXCEPT !.attached = FALSE] ELSE bs[j]])
    ELSE bs

\* promptForReload(accountName) in a document with a body
PromptForReload(bs, accountName) == Append(RemoveExisting(bs), NewBox(accountName))

\* the responses the listener sends when the write went through and the
\* prompt is built, and when e was caught
\* a bug to tell from SuccessResponses: the success path sends no response
NoSuccessResponse == <<>>

SuccessResponses == << [success |-> TRUE, message |-> MsgStorageSet] >>
\* a bug to tell from FailureResponses: the catch block sends no response
NoFailureResponse(e) == <<>>

FailureResponses(e) == << [success |-> FALSE, message |-> MsgWriteFailed(e)] >>

\* the onMessage listener runs for the request of slot s; writeError is
\* <<>> when the write of session_v1 succeeds, else the message it throws
\* with; hasBody is whether document.body exists at that time (a document
\* without body holds no prompt)
ExecutorReceive(s, writeError, hasBody) ==
    /\ tasks[s].kind = "switch" /\ tasks[s].pc = "sent"
    /\ tasks[s].tab \in Pages
    /\ tasks[s].request.action = SET_LOCAL_STORAGE_AUTH
    /\ ~hasBody => ElementById(boxes[tasks[s].tab]) = 0
    /\ LET p == tasks[s].tab
           authId == tasks[s].request.payload.authId
           name == tasks[s].request.payload.name
           handled(responses, console) ==
               Moved(s, [tasks[s] EXCEPT !.pc = "handled",
                                         !.responses = responses,
                                         !.console = console])
       IN  IF writeError # <<>>
           THEN /\ tasks' = handled(FailureResponses(writeError), <<LogError(writeError)>>)
                /\ UNCHANGED <<session, boxes>>
           ELSE /\ session' = [session EXCEPT ![p] = Set(session[p], LOCAL_STORAGE_KEY, authId)]
                /\ IF ~hasBody
                   THEN /\ tasks' = handled(FailureResponses(NoBodyError),
                                            <<LogSuccess, LogError(NoBodyError)>>)
                        /\ UNCHANGED boxes
                   ELSE /\ boxes' = [boxes EXCEPT ![p] = PromptForReload(boxes[p], name)]
                        /\ tasks' = handled(SuccessResponses, <<LogSuccess>>)
    /\ UNCHANGED <<store, rendered, messageBox, editModal,
                   editAccountId, closed>>
    /\ UNCHANGED clicks

\* click on #dismiss-btn of the prompt at position k of page p: one more
\* timeout is set
DismissClick(p, k) ==
    /\ k \in 1..Len(boxes[p])
    /\ boxes[p][k].attached
    /\ boxes[p][k].timers < MaxTimers
    /\ boxes' = [boxes EXCEPT ![p][k].timers = @ + 1]
    /\ UNCHANGED <<store, rendered, messageBox, editModal,
                   editAccountId, closed, tasks, session>>
    /\ UNCHANGED clicks

\* a timeout of the dismiss button fires: box.remove(), which does nothing
\* to a box that is out of the document already
DismissTimeout(p, k) ==
    /\ k \in 1..Len(boxes[p])
    /\ boxes[p][k].timers > 0
    /\ boxes' = [boxes EXCEPT ![p] = RemoveBox(boxes[p], k)]
    /\ UNCHANGED <<store, rendered, messageBox, editModal,
                   editAccountId, closed, tasks, session>>
    /\ UNCHANGED clicks

\* click on #reload-btn of the prompt at position k of page p:
\* window.location.reload() rebuilds the document and drops its timeouts
ReloadClick(p, k) ==
    /\ k \in 1..Len(boxes[p])
    /\ boxes[p][k].attached
    /\ boxes' = [boxes EXCEPT ![p] = <<>>]
    /\ UNCHANGED <<store, rendered, messageBox, editModal,
                   editAccountId, closed, tasks, session>>
    /\ UNCHANGED clicks

---------------------------------------------------------------------------
(* Specifications *)

\* steps of handlers that are in flight, of timeouts and of the page
Resume ==
    \/ \E s \in Slots : InitLoaded(s)
    \/ \E s \in Slots : AddLoaded(s)
    \/ \E s \in Slots : AddSaved(s)
    \/ \E s \in Slots : DeleteLoaded(s)
    \/ \E s \in Slots : DeleteSaved(s)
    \/ \E s \in Slots : EditLoaded(s)
    \/ \E s \in Slots : EditSaved(s)
    \/ \E s \in Slots, result \in QueryResults : SwitchQueried(s, result)
    \/ \E s \in Slots, lastError \in BOOLEAN : SwitchCallback(s, lastError)
    \/ \E s \in Slots, writeError \in WriteErrors \cup {<<>>}, hasBody \in BOOLEAN :
            ExecutorReceive(s, writeError, hasBody)
    \/ MessageTimeout
    \/ \E p \in Pages, k \in 1..MaxTasks : DismissClick(p, k)
    \/ \E p \in Pages, k \in 1..MaxTasks : DismissTimeout(p, k)
    \/ \E p \in Pages, k \in 1..MaxTasks : ReloadClick(p, k)

\* a click that is counted, up to MaxClicks
Counted == clicks < MaxClicks /\ clicks' = clicks + 1

\* the user clicks at any time, also while handlers are in flight, up to
\* MaxClicks times
Next ==
    \/ Counted /\ \E form \in Forms, t \in Clock : AddClick(form.name, form.authId, t)
    \/ Counted /\ \E index \in 0..(MaxAccounts - 1) : DeleteClick(index)
    \/ Counted /\ \E index \in 0..(MaxAccounts - 1) : OpenEditModal(index)
    \/ Counted /\ CloseEditModal
    \/ Counted /\ \E form \in Forms : SaveEditClick(form.name, form.authId)
    \/ Counted /\ \E index \in 0..(MaxAccounts - 1) : SwitchClick(index)
    \/ Resume

Spec == Init /\ [][Next]_vars

\* a click of a user who has waited for every handler to complete; these
\* clicks are not counted
Serial == Quiescent /\ UNCHANGED clicks

\* the user starts the next operation only when the last one has completed,
\* any number of times
NextSeq ==
    \/ Serial /\ \E form \in Forms, t \in Clock : AddClick(form.name, form.authId, t)
    \/ Serial /\ \E index \in 0..(MaxAccounts - 1) : DeleteClick(index)
    \/ Serial /\ \E index \in 0..(MaxAccounts - 1) : OpenEditModal(index)
    \/ Serial /\ CloseEditModal
    \/ Serial /\ \E form \in Forms : SaveEditClick(form.name, form.authId)
    \/ Serial /\ \E index \in 0..(MaxAccounts - 1) : SwitchClick(index)
    \/ Resume

SpecSeq == Init /\ [][NextSeq]_vars

---------------------------------------------------------------------------
(* Vocabulary of the properties *)

\* the persisted sequence
Persisted == LoadAccounts(store)

\* page p's local storage holds value under session_v1
SessionIs(p, value) == <<LOCAL_STORAGE_KEY, value>> \in session[p]

\* text has the pieces of part in it, in a row
Contains(text, part) ==
    \E i \in 0..(Len(text) - Len(part)) : SubSeq(text, i + 1, i + Len(part)) = part

\* the popup shows text
Shows(text) == messageBox = [text |-> text, display |-> "block"]

\* this step is one of the switch action in slot s
IsSwitch(s) == tasks[s].kind = "switch"

\* this step is the Executor handling the request of slot s
ExecutorHandles(s) == IsSwitch(s) /\ tasks[s].pc = "sent" /\ tasks'[s].pc = "handled"

\* this step is the Controller's callback running on the response to slot s
ResponseHandled(s) == IsSwitch(s) /\ tasks[s].pc = "handled" /\ tasks'[s] # tasks[s]

\* the Executor's write of session_v1 for the request went through: it
\* logged its success
WriteWentThrough(t) == t.console # <<>> /\ Head(t.console) = LogSuccess

\* the Executor's write of session_v1 for the request threw an error with message m
WriteThrew(t, m) == t.console = <<LogError(m)>>

\* requests sent and not yet answered or failed
InFlight(ts) == { s \in Slots : ts[s].kind = "switch" /\ ts[s].pc = "sent" }

---------------------------------------------------------------------------
(* C1: when a switch request reaches an Executor whose write of session_v1 *)
(* does not throw, then session_v1 of the page is the account's credential, *)
(* the response has success = true, and the Controller's callback closes    *)
(* the popup without showing a message.                                     *)
C1_SwitchSucceeds ==
    [][\A s \in Slots :
        /\ (ExecutorHandles(s) /\ WriteWentThrough(tasks'[s])) =>
              /\ SessionIs(tasks[s].tab, tasks[s].request.payload.authId)'
              /\ Len(tasks'[s].responses) = 1
              /\ Head(tasks'[s].responses).success
        /\ (ResponseHandled(s) /\ WriteWentThrough(tasks[s])) =>
              /\ SessionIs(tasks[s].tab, tasks[s].request.payload.authId)
              /\ closed'
              /\ messageBox' = messageBox
      ]_vars

---------------------------------------------------------------------------
(* C2: when the Executor's write of session_v1 throws an error with message *)
(* m, its response has success = false and a message containing m, and the  *)
(* Controller's callback shows a message containing m and does not close.   *)
C2_WriteErrorSurfaced ==
    [][\A s \in Slots, m \in WriteErrors :
        /\ (ExecutorHandles(s) /\ WriteThrew(tasks'[s], m)) =>
              /\ Len(tasks'[s].responses) = 1
              /\ ~Head(tasks'[s].responses).success
              /\ Contains(Head(tasks'[s].responses).message, m)
        /\ (ResponseHandled(s) /\ WriteThrew(tasks[s], m)) =>
              /\ messageBox'.display = "block"
              /\ Contains(messageBox'.text, m)
              /\ ~closed'
      ]_vars

\* the popup is open and shows a failed switch with the error's message
C2_Witness ==
    /\ ~closed
    /\ Shows(<<"Switch failed: ", "Failed to set localStorage: ", "Access denied",
               ". The site might restrict script access.">>)

---------------------------------------------------------------------------
(* C3: when the tab query of a switch action identifies no active tab (no   *)
(* tab, or a tab without id), the Controller sends no message, shows the    *)
(* "no active tab" message, does not close, and no page's session_v1        *)
(* changes.                                                                 *)
C3_NoTarget(result) == Len(result) = 0 \/ result[1].id = 0

C3_NoActiveTab ==
    [][\A s \in Slots, result \in QueryResults :
        (SwitchQueried(s, result) /\ C3_NoTarget(result)) =>
            /\ InFlight(tasks') \subseteq InFlight(tasks)
            /\ tasks'[s] = Idle
            /\ Shows(MsgNoActiveTab)'
            /\ ~closed'
            /\ session' = session
      ]_vars

\* the popup is open, shows the "no active tab" message, and no request is
\* under way
C3_Witness ==
    /\ ~closed
    /\ Shows(<<"Error: No active tab found.">>)
    /\ \A s \in Slots : tasks[s].kind # "switch"

---------------------------------------------------------------------------
(* C4: when the callback of a sent switch message runs with lastError set   *)
(* (no Executor reachable), the Controller shows the error that tells the   *)
(* user to reload the page first, does not close, and sends nothing again:  *)
(* one message was sent for the action, and the action is over.             *)
C4_TransportError ==
    [][\A s \in Slots :
        SwitchCallback(s, TRUE) =>
            /\ tasks[s].sent = 1
            /\ InFlight(tasks') \subseteq InFlight(tasks) \ {s}
            /\ tasks'[s] = Idle
            /\ Shows(MsgNoCommunication)'
            /\ ~closed'
      ]_vars

\* the popup is open and shows the transport error
C4_Witness ==
    /\ ~closed
    /\ Shows(<<"Error: Could not communicate with page script. Try reloading the page first.">>)

---------------------------------------------------------------------------
(* C5: the Executor sends exactly one response for every request it has     *)
(* handled, on the success path and on the failure path, none before, and a *)
(* response exists only for a message that was sent.                        *)
C5_ExactlyOneResponse ==
    \A s \in Slots :
        IsSwitch(s) /\ tasks[s].pc # "query" =>
            /\ tasks[s].sent = 1
            /\ tasks[s].pc = "sent" => tasks[s].responses = <<>>
            /\ tasks[s].pc = "handled" => Len(tasks[s].responses) = 1

\* a request handled on the failure path, with its one response
C5_Witness ==
    \E s \in Slots :
        /\ IsSwitch(s) /\ tasks[s].pc = "handled"
        /\ Len(tasks[s].responses) = 1
        /\ ~Head(tasks[s].responses).success

---------------------------------------------------------------------------
(* C6: when add, edit and delete operations follow one another from the     *)
(* initial load-and-render, then after each operation has completed the     *)
(* persisted sequence equals the sequence last passed to renderAccounts.    *)
C6_PersistedIsRendered == Quiescent => Persisted = rendered

\* a delete has completed and left one of two records, persisted and rendered
C6_Witness ==
    /\ Quiescent
    /\ Shows(<<"Account \"", "b", "\" deleted.">>)
    /\ Len(rendered) = 1
    /\ Persisted = rendered

---------------------------------------------------------------------------
(* C7: an add or an edit whose name or credential is empty after trimming   *)
(* is rejected on the click: the persisted and the rendered sequence are    *)
(* unchanged, no load, save or message to an Executor is issued, and the    *)
(* validation message is shown.                                             *)
C7_Blank(raw) == \A i \in 1..Len(raw) : raw[i] = " "

C7_Rejected(form) == C7_Blank(form.name) \/ C7_Blank(form.authId)

C7_ValidationRejects ==
    [][\A form \in Forms :
        C7_Rejected(form) =>
            /\ \A t \in Clock :
                  AddClick(form.name, form.authId, t) =>
                      /\ store' = store /\ rendered' = rendered
                      /\ tasks' = tasks /\ session' = session
                      /\ Shows(MsgProvideBoth)'
            /\ SaveEditClick(form.name, form.authId) =>
                      /\ store' = store /\ rendered' = rendered
                      /\ tasks' = tasks /\ session' = session
                      /\ Shows(MsgCannotBeEmpty)'
      ]_vars

\* an edit of a stored account was rejected: the modal is still open
C7_Witness ==
    /\ Shows(<<"Name and Auth ID cannot be empty.">>)
    /\ editModal = "flex"
    /\ Len(Persisted) = 1
    /\ Quiescent

---------------------------------------------------------------------------
(* C8: deleteAccount(i) on the persisted sequence s leaves s without the    *)
(* record at position i: one record fewer, the others unmodified and in     *)
(* the same order.                                                          *)
C8_DeleteRemovesOne ==
    [][\A s \in Slots :
        (tasks[s].kind = "delete" /\ tasks[s].pc = "load" /\ tasks'[s] # tasks[s]) =>
            LET i == tasks[s].index
                before == Persisted
                after == Persisted'
            IN  /\ tasks'[s].kind = "delete" /\ tasks'[s].pc = "save"
                /\ Len(after) = Len(before) - 1
                /\ \A k \in 1..Len(after) :
                      after[k] = IF k <= i THEN before[k] ELSE before[k + 1]
      ]_vars

\* the first of three different records was deleted: the second and the third
\* are left, in that order
C8_Witness ==
    /\ Shows(<<"Account \"", "a", "\" deleted.">>)
    /\ Len(Persisted) = 2
    /\ Persisted[1] = [id |-> <<"1">>, name |-> <<"b">>, authId |-> <<"y">>]
    /\ Persisted[2] = [id |-> <<"2">>, name |-> <<"a">>, authId |-> <<"x">>]
    /\ rendered = Persisted

---------------------------------------------------------------------------
(* C9: saving an edit whose id is the id of no record of the persisted      *)
(* sequence leaves the persisted sequence unchanged, issues no save, shows  *)
(* the "could not find account" message and closes the modal.               *)
C9_EditOfMissingId ==
    [][\A s \in Slots :
        (/\ tasks[s].kind = "edit" /\ tasks[s].pc = "load"
         /\ EditLoaded(s)
         /\ \A k \in 1..Len(Persisted) : Persisted[k].id # tasks[s].id) =>
            /\ store' = store
            /\ tasks'[s] = Idle
            /\ Shows(MsgNotFound)'
            /\ editModal' = "none"
      ]_vars

\* the edit of a deleted record was refused while another record is stored
C9_Witness ==
    /\ Shows(<<"Error: Could not find account to update.">>)
    /\ editModal = "none"
    /\ Len(Persisted) = 1
    /\ Persisted[1].id # editAccountId

---------------------------------------------------------------------------
(* C10: a successful edit replaces the name and the credential of one       *)
(* record, the first with the edited id: its id, the length and the order   *)
(* of the sequence and every other record stay as they were; and no step    *)
(* of any operation changes the id of a record of the persisted sequence:   *)
(* the ids after a step are the ids before it, in the same order, with at   *)
(* most one id added at the end (add) or one position removed (delete).     *)
C10_Ids(accounts) == [k \in 1..Len(accounts) |-> accounts[k].id]

C10_Without(ids, i) ==
    [k \in 1..(Len(ids) - 1) |-> IF k < i THEN ids[k] ELSE ids[k + 1]]

C10_IdsKept(before, after) ==
    \/ after = before
    \/ /\ Len(after) = Len(before) + 1
       /\ SubSeq(after, 1, Len(before)) = before
    \/ /\ Len(after) = Len(before) - 1
       /\ \E i \in 1..Len(before) : after = C10_Without(before, i)

C10_EditInPlace ==
    [][/\ \A s \in Slots :
            (tasks[s].kind = "edit" /\ tasks[s].pc = "load" /\ tasks'[s].pc = "save") =>
                LET before == Persisted
                    after == Persisted'
                IN  /\ Len(after) = Len(before)
                    /\ \E k \in 1..Len(before) :
                          /\ before[k].id = tasks[s].id
                          /\ after[k] = [id |-> before[k].id,
                                         name |-> tasks[s].newName,
                                         authId |-> tasks[s].newAuthId]
                          /\ \A j \in 1..Len(before) : j # k => after[j] = before[j]
       /\ C10_IdsKept(C10_Ids(Persisted), C10_Ids(Persisted'))
      ]_vars

\* the second of two records was edited from a/x to b/y and the first is as it was
C10_Witness ==
    /\ Shows(<<"Account \"", "a", "\" updated to \"", "b", "\"!">>)
    /\ Len(Persisted) = 2
    /\ Persisted[1] = [id |-> <<"1">>, name |-> <<"a">>, authId |-> <<"x">>]
    /\ Persisted[2] = [id |-> <<"2">>, name |-> <<"b">>, authId |-> <<"y">>]
    /\ rendered = Persisted

---------------------------------------------------------------------------
(* C11: at most one switch request is in flight at any time: in every      *)
(* reachable state at most one switch message has been sent whose response *)
(* or transport failure the Controller has not yet handled.                *)
C11_Unhandled(ts) ==
    { s \in Slots : ts[s].kind = "switch" /\ ts[s].pc \in {"sent", "handled"} }

C11_AtMostOneInFlight == Cardinality(C11_Unhandled(tasks)) <= 1

---------------------------------------------------------------------------
(* Scheduling: the browser runs the callback of every asynchronous call    *)
(* the popup has made, and the transport delivers a sent message to the    *)
(* content script or reports that none received it.                        *)

\* the next step of the switch action in slot s
SwitchStep(s) ==
    \/ \E result \in QueryResults : SwitchQueried(s, result)
    \/ \E writeError \in WriteErrors \cup {<<>>}, hasBody \in BOOLEAN :
            ExecutorReceive(s, writeError, hasBody)
    \/ \E lastError \in BOOLEAN : SwitchCallback(s, lastError)

Fairness == \A s \in Slots : WF_vars(SwitchStep(s))

FairSpec == Spec /\ Fairness

FairSpecSeq == SpecSeq /\ Fairness

---------------------------------------------------------------------------
(* C12: every switch action ends, and ends in exactly one of four ways:    *)
(* the "no active tab" message, the transport error message, the failure   *)
(* message of the response, or the popup closed; given that the transport  *)
(* delivers the response or reports the Executor unreachable, the          *)
(* Controller does not wait forever.                                       *)
C12_Count(b) == IF b THEN 1 ELSE 0

\* the switch action of slot s ends in this step
C12_Ends(s) == tasks[s].kind = "switch" /\ tasks'[s].kind # "switch"

C12_Outcomes ==
    C12_Count(Shows(MsgNoActiveTab)' /\ ~closed')
    + C12_Count(Shows(MsgNoCommunication)' /\ ~closed')
    + C12_Count(/\ messageBox'.display = "block"
                /\ Len(messageBox'.text) > 1
                /\ Head(messageBox'.text) = "Switch failed: "
                /\ ~closed')
    + C12_Count(closed' /\ messageBox' = messageBox)

C12_SwitchTerminates ==
    /\ [][\A s \in Slots : C12_Ends(s) => C12_Outcomes = 1]_vars
    /\ \A s \in Slots :
          (tasks[s].kind = "switch") ~> (tasks[s].kind # "switch" \/ closed)

\* a switch action has ended with the popup closed and the credential written
C12_Witness ==
    /\ closed
    /\ Quiescent
    /\ \E p \in Pages : SessionIs(p, <<"y">>)

---------------------------------------------------------------------------
(* C13: every error of an add, edit, delete or switch operation            *)
(* (validation, no active tab, transport, execution, not-found, and a      *)
(* delete whose index addresses no record of the loaded sequence) is shown *)
(* as a transient message, and afterwards the popup is open with the       *)
(* operation over, so that add, edit, delete and switch are enabled again. *)

\* a message is shown (until its timeout hides it), the popup is open and
\* the invocation of slot s, if any, is over
C13_Reported(s) ==
    /\ messageBox'.display = "block"
    /\ messageBox'.text # <<>>
    /\ ~closed'
    /\ s \in Slots => tasks'[s] = Idle

C13_BlankAfterTrim(raw) == \A i \in 1..Len(raw) : raw[i] = " "

\* the errors but the one of delete
C13_OtherErrorsReported ==
    /\ \A form \in Forms :
          (/\ C13_BlankAfterTrim(form.name) \/ C13_BlankAfterTrim(form.authId)
           /\ \/ \E t \in Clock : AddClick(form.name, form.authId, t)
              \/ SaveEditClick(form.name, form.authId)) => C13_Reported(0)
    /\ \A s \in Slots :
          /\ (/\ EditLoaded(s)
              /\ \A k \in 1..Len(tasks[s].loaded) : tasks[s].loaded[k].id # tasks[s].id)
                 => C13_Reported(s)
          /\ (\E result \in QueryResults :
                 /\ SwitchQueried(s, result)
                 /\ Len(result) = 0 \/ result[1].id = NoId) => C13_Reported(s)
          /\ SwitchCallback(s, TRUE) => C13_Reported(s)
          /\ (SwitchCallback(s, FALSE) /\ ~tasks[s].responses[1].success)
                 => C13_Reported(s)

\* the error of a delete whose index addresses no record
C13_DeleteErrorReported ==
    \A s \in Slots :
        (DeleteLoaded(s) /\ tasks[s].index >= Len(tasks[s].loaded)) => C13_Reported(s)

C13_ErrorsReported ==
    [][C13_OtherErrorsReported /\ C13_DeleteErrorReported]_vars

\* the errors but the one of delete are reported
C13_OthersHold == [][C13_OtherErrorsReported]_vars

---------------------------------------------------------------------------
(* C14: starting from an empty store, after any add, edit and delete       *)
(* operations every record of the persisted sequence has a name and a      *)
(* credential that are non-empty and neither begin nor end with            *)
(* whitespace.                                                             *)
C14_Clean(text) ==
    /\ Len(text) >= 1
    /\ text[1] # " "
    /\ text[Len(text)] # " "

C14_RecordsClean ==
    \A k \in 1..Len(Persisted) :
        C14_Clean(Persisted[k].name) /\ C14_Clean(Persisted[k].authId)

\* two records are persisted whose name and credential were typed with
\* blanks around them
C14_Witness ==
    /\ Len(Persisted) = 2
    /\ Persisted[1].name = <<"a">>
    /\ Persisted[2].authId = <<"y">>

---------------------------------------------------------------------------
(* C15: lookup by id identifies the record that is edited: when the modal  *)
(* is opened for the record at a position of the list, the record that a   *)
(* save of the edit replaces (the one findIndex finds for the id the modal *)
(* holds) is that record and no other, also after two adds that obtained   *)
(* the same timestamp id.                                                  *)
C15_LookupFindsOpened ==
    [][\A index \in 0..(MaxAccounts - 1) :
        (OpenEditModal(index) /\ Persisted = rendered) =>
            LET found == FindIndex(Persisted', editAccountId')
            IN  /\ found = index
                /\ LET after == SetNameAndAuthId(Persisted', found, <<"n">>, <<"v">>)
                    IN  \A k \in 1..Len(after) :
                           (after[k] # Persisted'[k]) <=> (k = index + 1)
      ]_vars

---------------------------------------------------------------------------
(* C16: no update is lost when the handlers of two mutating operations     *)
(* interleave at their awaits: the persisted sequence reflects both, and   *)
(* an account whose add reports "saved" is in the persisted sequence       *)
(* unless a delete has removed it.                                         *)

\* no delete is at work that may have removed a record
C16_NoDelete == \A r \in Slots : tasks[r].kind # "delete"

C16_NoLostUpdate ==
    [][\A s \in Slots :
        (AddSaved(s) /\ C16_NoDelete) =>
            /\ messageBox' = [text |-> MsgSaved(tasks[s].newAccount.name),
                              display |-> "block"]
            /\ \E k \in 1..Len(Persisted') : Persisted'[k] = tasks[s].newAccount
      ]_vars

---------------------------------------------------------------------------
(* C17: the record a delete removes is the record rendered at the clicked  *)
(* position when the user clicked: the index is valid in the sequence that *)
(* deleteAccount loads and the loaded record at that index is the rendered *)
(* one, also when another operation has saved and not yet re-rendered.     *)
C17_DeleteHitsRendered ==
    [][\A index \in 0..(MaxAccounts - 1) :
        DeleteClick(index) =>
            \E s \in Slots :
                /\ tasks[s] = Idle
                /\ tasks'[s].kind = "delete"
                /\ tasks'[s].index = index
                /\ index < Len(tasks'[s].loaded)
                /\ tasks'[s].loaded[index + 1] = rendered[index + 1]
      ]_vars

---------------------------------------------------------------------------
(* C18: the Executor responds with success = false only when the write of  *)
(* session_v1 did not take effect: when handling a request has changed     *)
(* session_v1 to the requested credential, its response has success =      *)
(* true, whatever happens in the steps after the write.                    *)
C18_FailureOnlyWithoutWrite ==
    [][\A s \in Slots :
        (/\ ExecutorHandles(s)
         /\ session'[tasks[s].tab] # session[tasks[s].tab]
         /\ <<LOCAL_STORAGE_KEY, tasks[s].request.payload.authId>>
                \in session'[tasks[s].tab]) =>
            \A k \in 1..Len(tasks'[s].responses) : tasks'[s].responses[k].success
      ]_vars

---------------------------------------------------------------------------
(* C19: after any successful switch requests, dismissals and dismissal     *)
(* timeouts on one page, the page holds at most one reload prompt; a       *)
(* prompt that is present shows the name of the last successful switch the *)
(* page has processed; and the pending dismissal timeout of an earlier     *)
(* prompt never removes a later one.                                       *)

\* positions of the prompts that are in the document
C19_Attached(bs) == { j \in 1..Len(bs) : bs[j].attached }

\* the prompts that are in the document
C19_Shown(bs) == { bs[j] : j \in C19_Attached(bs) }

\* at most one prompt is in the document, and it is the one made last
C19_AtMostOne ==
    \A p \in Pages :
        /\ Cardinality(C19_Attached(boxes[p])) <= 1
        /\ C19_Attached(boxes[p]) \subseteq {Len(boxes[p])}

C19_Step ==
    /\ \A s \in Slots :
          \* a successful switch leaves exactly its own prompt
          (/\ ExecutorHandles(s)
           /\ tasks'[s].responses # <<>>
           /\ tasks'[s].responses[1].success) =>
              LET bs == boxes'[tasks[s].tab]
              IN  /\ C19_Attached(bs) = {Len(bs)}
                  /\ bs[Len(bs)].name = tasks[s].request.payload.name
                  /\ bs[Len(bs)].timers = 0
    /\ \A p \in Pages :
          \* a timeout of the prompt at position k removes no other prompt
          /\ \A k \in 1..Len(boxes[p]) :
                DismissTimeout(p, k) =>
                    \A j \in C19_Attached(boxes[p]) \ {k} :
                        boxes[p][j] \in C19_Shown(boxes'[p])
          \* no other step puts a prompt in the document or renames one
          /\ (\A s \in Slots : ~ExecutorHandles(s)) =>
                \A b \in C19_Shown(boxes'[p]) :
                    \E c \in C19_Shown(boxes[p]) : c.name = b.name

C19_PromptIsLatest == []C19_AtMostOne /\ [][C19_Step]_vars

\* the prompt of an earlier switch is out of the document with its
\* dismissal timeout pending, and the prompt of a later switch is shown
C19_Witness ==
    \E p \in Pages :
        /\ Len(boxes[p]) = 2
        /\ boxes[p][1].name = <<"a">> /\ ~boxes[p][1].attached /\ boxes[p][1].timers > 0
        /\ boxes[p][2].name = <<"b">> /\ boxes[p][2].attached

=============================================================================
